---- MODULE Spec2Model ----
(***************************************************************************)
(* A model of hrd_starter.py: the Hua Rong Dao (4x5 sliding block) solver. *)
(* Pieces, Boards and search States are records; State objects live in an  *)
(* arena (the sequence `states`) and are referred to by their index, 0     *)
(* standing for Python's None reference.  Python tuples and lists are      *)
(* 0-indexed, TLA+ sequences are 1-indexed: shape[0] is written shape[1].  *)
(***************************************************************************)
EXTENDS Integers, Sequences, FiniteSets, TLC

VARIABLES
    hashseed,       \* the per-process salt of Python's str hash (PYTHONHASHSEED)
    algo,           \* which driver object was built: "dfs" or "astar"
    initial,        \* the piece list read_from_file returned
    states,         \* the arena of State objects; a reference is an index
    current_state,  \* self.current_state (a reference, NoneRef for None)
    visited,        \* self.visited
    frontier,       \* self.frontier: a stack (DFS) or a heapq heap (A*)
    actions,        \* the local list "actions" of dfs() / astar()
    pc,             \* the position of the driver in dfs() / astar()
    ret,            \* the value dfs() / astar() returned
    out,            \* what the driver printed
    path,           \* the local list "path" of print_solution
    exc,            \* the exception that ended the run, None if none
    popped,         \* history: the references popped from the frontier, in order
    fn_pieces,      \* a piece list handed to Board(pieces) on its own
    fn_call,        \* the function applied to it last, "none" before any
    fn_board,       \* the Board built from fn_pieces
    fn_actions,     \* the list get_actions returned for that Board
    fn_h,           \* <<Board.heuristic(), AStar.heuristic(board)>> of that Board
    fn_back,        \* get_actions applied once more, to a successor of that Board
    fn_valid,       \* is_valid applied to a piece list, and what it returned
    run_no,         \* 1 in the first run of the program on an input, 2 in a rerun
    first_run       \* what the first run did, kept for comparison with the rerun

\* ------------------------------------------------------------------------
\* Program constants
\* ------------------------------------------------------------------------
width == 4
height == 5
goal_x == 1
goal_y == 3
char_goal == "1"
char_single == "2"

\* Python's None where a string is expected (orientation, return value).
None == "None"
\* Python's None where a State reference is expected.
NoneRef == 0
\* Python's None in a slot of Board.empty (a cell is a pair <<x, y>>).
NoneCell == <<>>

Abs(n) == IF n < 0 THEN -n ELSE n

\* ------------------------------------------------------------------------
\* class Piece
\* ------------------------------------------------------------------------
Piece(is_goal, is_single, coord_x, coord_y, orientation) ==
    [is_goal |-> is_goal, is_single |-> is_single,
     coord_x |-> coord_x, coord_y |-> coord_y, orientation |-> orientation,
     shape |-> IF is_goal THEN <<2, 2>>
               ELSE IF orientation = "h" THEN <<1, 2>>
               ELSE IF orientation = "v" THEN <<2, 1>>
               ELSE <<1, 1>>]

\* What get_piece_at returns when no piece covers the cell (Python None):
\* a value equal to no piece of any board.
NonePiece == Piece(FALSE, FALSE, -1, -1, None)

\* The cells a piece covers, from its shape (rows, columns).
Footprint(p) ==
    {<<p.coord_x + i, p.coord_y + j>> :
        i \in 0..(p.shape[2] - 1), j \in 0..(p.shape[1] - 1)}

InBounds(c) == 0 <= c[1] /\ c[1] < width /\ 0 <= c[2] /\ c[2] < height

\* ------------------------------------------------------------------------
\* class Board
\* ------------------------------------------------------------------------
EmptyGrid == [i \in 0..(height - 1) |-> [j \in 0..(width - 1) |-> "."]]

SetCell(grid, x, y, ch) == [grid EXCEPT ![y][x] = ch]

\* The body of the loop "for piece in self.pieces" of __construct_grid.
DrawPiece(grid, piece) ==
    IF piece.is_goal THEN
        SetCell(SetCell(SetCell(SetCell(grid,
            piece.coord_x, piece.coord_y, char_goal),
            piece.coord_x + 1, piece.coord_y, char_goal),
            piece.coord_x, piece.coord_y + 1, char_goal),
            piece.coord_x + 1, piece.coord_y + 1, char_goal)
    ELSE IF piece.is_single THEN
        SetCell(grid, piece.coord_x, piece.coord_y, char_single)
    ELSE IF piece.orientation = "h" THEN
        SetCell(SetCell(grid, piece.coord_x, piece.coord_y, "<"),
                piece.coord_x + 1, piece.coord_y, ">")
    ELSE IF piece.orientation = "v" THEN
        SetCell(SetCell(grid, piece.coord_x, piece.coord_y, "^"),
                piece.coord_x, piece.coord_y + 1, "v")
    ELSE grid

RECURSIVE DrawPieces(_, _, _)
DrawPieces(grid, pieces, k) ==
    IF k > Len(pieces) THEN grid
    ELSE DrawPieces(DrawPiece(grid, pieces[k]), pieces, k + 1)

\* The scan "update the empty space" of __construct_grid: self.empty has two
\* slots, the break leaves the inner loop only, and a third '.' met in a
\* later row assigns self.empty[2], which raises IndexError.
RECURSIVE ScanEmpty(_, _, _, _, _)
ScanEmpty(grid, i, j, empty, count) ==
    IF i = height THEN [empty |-> empty, exc |-> None]
    ELSE IF j = width THEN ScanEmpty(grid, i + 1, 0, empty, count)
    ELSE IF grid[i][j] = "." THEN
        IF count >= 2 THEN [empty |-> empty, exc |-> "IndexError"]
        ELSE LET e2 == [empty EXCEPT ![count + 1] = <<j, i>>] IN
             IF count + 1 = 2 THEN ScanEmpty(grid, i + 1, 0, e2, count + 1)
             ELSE ScanEmpty(grid, i, j + 1, e2, count + 1)
    ELSE ScanEmpty(grid, i, j + 1, empty, count)

\* Board.__init__ and __construct_grid.  exc is the exception the
\* constructor raised, None when it returned a Board.
Board(pieces) ==
    LET grid == DrawPieces(EmptyGrid, pieces, 1)
        sc == ScanEmpty(grid, 0, 0, <<NoneCell, NoneCell>>, 0)
    IN [pieces |-> pieces, grid |-> grid, empty |-> sc.empty, exc |-> sc.exc]

\* The distance to the target with the target's coordinates exchanged.
goal_distance_swapped(piece) == Abs(piece.coord_x - 3) + Abs(piece.coord_y - 1)

\* "abs(piece.coord_x - 1) + abs(piece.coord_y - 3)" of Board.heuristic
goal_distance(piece) == Abs(piece.coord_x - 1) + Abs(piece.coord_y - 3)

RECURSIVE Board_heuristic_from(_, _)
Board_heuristic_from(pieces, k) ==
    IF k > Len(pieces) THEN 0
    ELSE IF pieces[k].is_goal THEN goal_distance(pieces[k])
    ELSE Board_heuristic_from(pieces, k + 1)

\* Board.heuristic
Board_heuristic(board) == Board_heuristic_from(board.pieces, 1)

\* ------------------------------------------------------------------------
\* is_valid
\* ------------------------------------------------------------------------
RECURSIVE is_valid_positions(_, _)
is_valid_positions(pieces, k) ==
    IF k > Len(pieces) THEN {}
    ELSE LET piece == pieces[k]
             x == piece.coord_x
             y == piece.coord_y
             own == IF piece.is_goal
                    THEN {<<x, y>>, <<x + 1, y>>, <<x, y + 1>>, <<x + 1, y + 1>>}
                    ELSE IF piece.is_single THEN {<<x, y>>}
                    ELSE IF piece.orientation = "h" THEN {<<x, y>>, <<x + 1, y>>}
                    ELSE IF piece.orientation = "v" THEN {<<x, y>>, <<x, y + 1>>}
                    ELSE {}
         IN own \cup is_valid_positions(pieces, k + 1)

is_valid(pieces) ==
    Cardinality(is_valid_positions(pieces, 1)) = Len(pieces) + 8

\* ------------------------------------------------------------------------
\* read_from_file: a puzzle file is a sequence of lines, a line a sequence
\* of one-character strings.
\* ------------------------------------------------------------------------
RECURSIVE read_line(_, _, _, _)
read_line(line, x, line_index, acc) ==
    IF x > Len(line) THEN acc
    ELSE LET ch == line[x]
             nxt ==
               IF ch = "^" THEN
                   [acc EXCEPT !.pieces = Append(@, Piece(FALSE, FALSE, x - 1, line_index, "v"))]
               ELSE IF ch = "<" THEN
                   [acc EXCEPT !.pieces = Append(@, Piece(FALSE, FALSE, x - 1, line_index, "h"))]
               ELSE IF ch = char_single THEN
                   [acc EXCEPT !.pieces = Append(@, Piece(FALSE, TRUE, x - 1, line_index, None))]
               ELSE IF ch = char_goal /\ ~acc.g_found THEN
                   [pieces |-> Append(acc.pieces, Piece(TRUE, FALSE, x - 1, line_index, None)),
                    g_found |-> TRUE]
               ELSE acc
         IN read_line(line, x + 1, line_index, nxt)

RECURSIVE read_lines(_, _, _)
read_lines(file, k, acc) ==
    IF k > Len(file) THEN acc.pieces
    ELSE read_lines(file, k + 1, read_line(file[k], 1, k - 1, acc))

\* The piece list read_from_file hands to Board(pieces).
read_from_file(file) == read_lines(file, 1, [pieces |-> <<>>, g_found |-> FALSE])


\* ------------------------------------------------------------------------
\* Board.__hash__ / Board.__eq__ and class State
\* ------------------------------------------------------------------------
\* Board.__hash__: the hash of the grid's tuple of tuples of strings.  The
\* value depends on the grid and on the process's hash salt only; the 64-bit
\* collisions of Python's hash are not modelled.
Board_hash(board) == <<hashseed, board.grid>>

Board_eq(self, other) == self.grid = other.grid

State(board, f, depth, parent) ==
    [board |-> board, f |-> f, depth |-> depth, parent |-> parent,
     id |-> Board_hash(board)]

\* The order of two ids as Python integers: fixed by the grid and the salt.
RECURSIVE grid_key(_, _)
grid_key(grid, k) ==
    IF k = width * height THEN 0
    ELSE (IF grid[k \div width][k % width] = "." THEN k + 1 ELSE 0) + grid_key(grid, k + 1)

id_lt(a, b) ==
    IF a[1] = 0 THEN grid_key(a[2], 0) < grid_key(b[2], 0)
    ELSE grid_key(b[2], 0) < grid_key(a[2], 0)

\* __lt__ with ties on f broken by the id ("The id for breaking ties").
State_lt_id_ties(self, other) ==
    self.f < other.f \/ (self.f = other.f /\ id_lt(self.id, other.id))

\* State.__lt__
State_lt(self, other) == self.f < other.f

\* Piece.__eq__
Piece_eq(self, value) ==
    /\ self.is_goal = value.is_goal
    /\ self.is_single = value.is_single
    /\ self.coord_x = value.coord_x
    /\ self.coord_y = value.coord_y
    /\ self.orientation = value.orientation

\* ------------------------------------------------------------------------
\* Python list helpers
\* ------------------------------------------------------------------------
Range(seq) == {seq[k] : k \in 1..Len(seq)}

\* list.remove(x): drops the first element equal to x.
RECURSIVE ListRemove(_, _)
ListRemove(seq, x) ==
    IF seq = <<>> THEN <<>>
    ELSE IF Head(seq) = x THEN Tail(seq)
    ELSE <<Head(seq)>> \o ListRemove(Tail(seq), x)

\* ------------------------------------------------------------------------
\* get_piece_at (DFS.get_piece_at and AStar.get_piece_at are the same code)
\* ------------------------------------------------------------------------
RECURSIVE get_piece_at_from(_, _, _, _)
get_piece_at_from(pieces, x, y, k) ==
    IF k > Len(pieces) THEN NonePiece
    ELSE LET piece == pieces[k]
             px == piece.coord_x
             py == piece.coord_y
         IN IF piece.is_goal /\ <<x, y>> \in {<<px, py>>, <<px + 1, py>>,
                                               <<px, py + 1>>, <<px + 1, py + 1>>}
            THEN piece
            ELSE IF piece.is_single /\ <<x, y>> = <<px, py>> THEN piece
            ELSE IF piece.orientation = "h" /\ <<x, y>> \in {<<px, py>>, <<px + 1, py>>}
            THEN piece
            ELSE IF piece.orientation = "v" /\ <<x, y>> \in {<<px, py>>, <<px, py + 1>>}
            THEN piece
            ELSE get_piece_at_from(pieces, x, y, k + 1)

get_piece_at(board, x, y) == get_piece_at_from(board.pieces, x, y, 1)

\* ------------------------------------------------------------------------
\* move_piece, up to the construction of the new Board (the code of
\* DFS.move_piece and of AStar.move_piece differs in the returned State only)
\* ------------------------------------------------------------------------
\* The branch of the if/elif chain that the direction and the bounds test
\* select: the cell tested against empty_spaces, the displacement, and the
\* two cells the piece vacates.  ok is FALSE for the final "else".
move_branch(p, direction) ==
    LET x == p.coord_x
        y == p.coord_y
        s0 == p.shape[1]
        s1 == p.shape[2]
    IN IF direction = "down" /\ y > 0 THEN
           [ok |-> TRUE, test |-> <<x, y - 1>>, dx |-> 0, dy |-> -1,
            new_empty1 |-> <<x, y + s0 - 1>>, new_empty2 |-> <<x + s1 - 1, y + s0 - 1>>]
       ELSE IF direction = "up" /\ y + s0 < height THEN
           [ok |-> TRUE, test |-> <<x, y + s0>>, dx |-> 0, dy |-> 1,
            new_empty1 |-> <<x, y>>, new_empty2 |-> <<x + s1 - 1, y>>]
       ELSE IF direction = "right" /\ x > 0 THEN
           [ok |-> TRUE, test |-> <<x - 1, y>>, dx |-> -1, dy |-> 0,
            new_empty1 |-> <<x + s1 - 1, y>>, new_empty2 |-> <<x + s1 - 1, y + s0 - 1>>]
       ELSE IF direction = "left" /\ x + s1 < width THEN
           [ok |-> TRUE, test |-> <<x + s1, y>>, dx |-> 1, dy |-> 0,
            new_empty1 |-> <<x, y>>, new_empty2 |-> <<x, y + s0 - 1>>]
       ELSE
           [ok |-> FALSE, test |-> <<x, y>>, dx |-> 0, dy |-> 0,
            new_empty1 |-> <<x, y>>, new_empty2 |-> <<x, y>>]

\* "for x, y in empty_spaces: if new_board.grid[y][x] != '.': remove, append":
\* the list is changed while it is iterated, so the iteration goes by index.
RECURSIVE fix_empty_spaces(_, _, _, _)
fix_empty_spaces(grid, empty_spaces, new_empty2, i) ==
    IF i >= Len(empty_spaces) THEN empty_spaces
    ELSE LET c == empty_spaces[i + 1] IN
         IF grid[c[2]][c[1]] # "."
         THEN fix_empty_spaces(grid, Append(ListRemove(empty_spaces, c), new_empty2),
                               new_empty2, i + 1)
         ELSE fix_empty_spaces(grid, empty_spaces, new_empty2, i + 1)

\* The loop "for p in new_pieces".  The result is kind "None" (return None),
\* "Board" (the new Board, with its empty list overwritten) or "raise".
RECURSIVE move_piece_loop(_, _, _, _, _)
move_piece_loop(new_pieces, empty_spaces, piece, direction, k) ==
    IF k > Len(new_pieces) THEN [kind |-> "None", board |-> Board(<<>>), exc |-> None]
    ELSE LET p == new_pieces[k] IN
         IF ~Piece_eq(p, piece)
         THEN move_piece_loop(new_pieces, empty_spaces, piece, direction, k + 1)
         ELSE LET br == move_branch(p, direction) IN
              IF ~br.ok THEN [kind |-> "None", board |-> Board(<<>>), exc |-> None]
              ELSE LET hit == br.test \in Range(empty_spaces)
                       es == IF hit
                             THEN Append(ListRemove(empty_spaces, br.test), br.new_empty1)
                             ELSE empty_spaces
                       np == IF hit
                             THEN [new_pieces EXCEPT ![k].coord_x = @ + br.dx,
                                                     ![k].coord_y = @ + br.dy]
                             ELSE new_pieces
                   IN IF is_valid(np)
                      THEN LET new_board == Board(np) IN
                           IF new_board.exc # None
                           THEN [kind |-> "raise", board |-> new_board, exc |-> new_board.exc]
                           ELSE [kind |-> "Board",
                                 board |-> [new_board EXCEPT !.empty =
                                     fix_empty_spaces(new_board.grid, es, br.new_empty2, 0)],
                                 exc |-> None]
                      ELSE move_piece_loop(np, es, piece, direction, k + 1)

move_piece_board(board, piece, direction) ==
    move_piece_loop(board.pieces, board.empty, piece, direction, 1)


\* ------------------------------------------------------------------------
\* AStar.linear_conflict / AStar.heuristic
\* ------------------------------------------------------------------------
RECURSIVE first_goal_piece(_, _)
first_goal_piece(pieces, k) ==
    IF k > Len(pieces) THEN NonePiece
    ELSE IF pieces[k].is_goal THEN pieces[k]
    ELSE first_goal_piece(pieces, k + 1)

AStar_linear_conflict(board) ==
    LET caocao == first_goal_piece(board.pieces, 1)
        below == IF caocao.coord_y < goal_y
                 THEN {<<row, col>> \in ((caocao.coord_y + 2)..goal_y)
                                        \X (caocao.coord_x..(caocao.coord_x + 1)) :
                          board.grid[row][col] # "."}
                 ELSE {}
        beside == IF caocao.coord_x < goal_x
                  THEN {<<col, row>> \in ((caocao.coord_x + 2)..goal_x)
                                         \X (caocao.coord_y..(caocao.coord_y + 1)) :
                           board.grid[row][col] # "."}
                  ELSE {}
    IN IF caocao = NonePiece THEN 0
       ELSE (Cardinality(below) + Cardinality(beside)) * 2

AStar_heuristic(board) == AStar_linear_conflict(board) + Board_heuristic(board)

\* ------------------------------------------------------------------------
\* get_actions
\* ------------------------------------------------------------------------
\* The dict "directions", in insertion order.
directions ==
    << [name |-> "up", dx |-> 0, dy |-> -1], [name |-> "down", dx |-> 0, dy |-> 1],
       [name |-> "left", dx |-> -1, dy |-> 0], [name |-> "right", dx |-> 1, dy |-> 0] >>

\* The n-th (0-based) iteration of the two nested loops of get_actions: the
\* result of move_piece for that empty cell and direction, kind "None" when
\* the neighbour test fails and move_piece is not called.
get_actions_try(board, n) ==
    LET e == board.empty[(n \div 4) + 1]
        d == directions[(n % 4) + 1]
        nx == e[1] + d.dx
        ny == e[2] + d.dy
    IN IF 0 <= nx /\ nx < width /\ 0 <= ny /\ ny < height /\ board.grid[ny][nx] # "."
       THEN move_piece_board(board, get_piece_at(board, nx, ny), d.name)
       ELSE [kind |-> "None", board |-> Board(<<>>), exc |-> None]

\* move_piece without the two deepcopy calls: new_pieces and empty_spaces
\* are the lists of the current State's Board, which the move changes.
move_piece_leaves_aliased(board, r) ==
    IF r.kind = "Board"
    THEN [board EXCEPT !.pieces = r.board.pieces, !.empty = r.board.empty]
    ELSE board

\* The Board of the current State after a call of move_piece that gave r:
\* "new_pieces = deepcopy(...)", "empty_spaces = deepcopy(...)", so the
\* assignments to p.coord_x / p.coord_y and the remove / append calls change
\* copies, and the Board is as it was.
move_piece_leaves(board, r) == board

\* The Board of the current State after get_actions: after each call of
\* move_piece its loops make, from the n-th iteration on, up to the call
\* that raises, if one does.
RECURSIVE get_actions_leaves(_, _)
get_actions_leaves(board, n) ==
    IF n >= 4 * Len(board.empty) THEN board
    ELSE IF get_actions_try(board, n).kind = "raise"
         THEN move_piece_leaves(board, get_actions_try(board, n))
         ELSE get_actions_leaves(move_piece_leaves(board, get_actions_try(board, n)), n + 1)

\* DFS.move_piece: the State it returns for a new Board.
DFS_move_piece_state(new_board, cs, csref) == State(new_board, 1, cs.depth + 1, csref)

\* The successor State with f computed from the parent's depth.
AStar_move_piece_state_parent_depth(new_board, cs, csref) ==
    State(new_board, cs.depth + AStar_heuristic(new_board), cs.depth + 1, csref)

\* AStar.move_piece: the State it returns for a new Board.
AStar_move_piece_state(new_board, cs, csref) ==
    State(new_board, cs.depth + 1 + AStar_heuristic(new_board), cs.depth + 1, csref)

\* DFS.get_actions on current State cs (reference csref) with visited set
\* vis: the list of new States, the visited set it leaves, and the
\* exception that left it, if any.
RECURSIVE DFS_get_actions_loop(_, _, _, _, _)
DFS_get_actions_loop(cs, csref, vis, acts, n) ==
    IF n >= 4 * Len(cs.board.empty) THEN [actions |-> acts, visited |-> vis, exc |-> None]
    ELSE LET r == get_actions_try(cs.board, n) IN
         IF r.kind = "raise" THEN [actions |-> acts, visited |-> vis, exc |-> r.exc]
         ELSE IF r.kind = "Board"
              THEN LET new_board == DFS_move_piece_state(r.board, cs, csref) IN
                   IF new_board.id \notin vis
                   THEN DFS_get_actions_loop(cs, csref, vis \cup {new_board.id},
                                             Append(acts, new_board), n + 1)
                   ELSE DFS_get_actions_loop(cs, csref, vis, acts, n + 1)
              ELSE DFS_get_actions_loop(cs, csref, vis, acts, n + 1)

\* get_actions keeping its own set of ids, new at each call, and leaving it
\* in self.visited.
DFS_get_actions_fresh_set(cs, csref, vis) == DFS_get_actions_loop(cs, csref, {}, <<>>, 0)

DFS_get_actions(cs, csref, vis) == DFS_get_actions_loop(cs, csref, vis, <<>>, 0)

\* AStar.get_actions: as DFS.get_actions, without the insertion in visited.
RECURSIVE AStar_get_actions_loop(_, _, _, _, _)
AStar_get_actions_loop(cs, csref, vis, acts, n) ==
    IF n >= 4 * Len(cs.board.empty) THEN [actions |-> acts, visited |-> vis, exc |-> None]
    ELSE LET r == get_actions_try(cs.board, n) IN
         IF r.kind = "raise" THEN [actions |-> acts, visited |-> vis, exc |-> r.exc]
         ELSE IF r.kind = "Board"
              THEN LET new_board == AStar_move_piece_state(r.board, cs, csref) IN
                   IF new_board.id \notin vis
                   THEN AStar_get_actions_loop(cs, csref, vis, Append(acts, new_board), n + 1)
                   ELSE AStar_get_actions_loop(cs, csref, vis, acts, n + 1)
              ELSE AStar_get_actions_loop(cs, csref, vis, acts, n + 1)

AStar_get_actions(cs, csref, vis) == AStar_get_actions_loop(cs, csref, vis, <<>>, 0)

\* ------------------------------------------------------------------------
\* heapq.heappush / heapq.heappop on a list of State references; S is the
\* arena the references point into.  Positions are 0-based as in heapq.
\* ------------------------------------------------------------------------
RECURSIVE heapq_siftdown(_, _, _, _, _)
heapq_siftdown(S, heap, startpos, pos, newitem) ==
    IF pos > startpos
    THEN LET parentpos == (pos - 1) \div 2
             parent == heap[parentpos + 1]
         IN IF State_lt(S[newitem], S[parent])
            THEN heapq_siftdown(S, [heap EXCEPT ![pos + 1] = parent],
                                startpos, parentpos, newitem)
            ELSE [heap EXCEPT ![pos + 1] = newitem]
    ELSE [heap EXCEPT ![pos + 1] = newitem]

RECURSIVE heapq_siftup_loop(_, _, _, _, _)
heapq_siftup_loop(S, heap, startpos, pos, newitem) ==
    LET endpos == Len(heap)
        childpos == 2 * pos + 1
        rightpos == childpos + 1
    IN IF childpos < endpos
       THEN LET c == IF rightpos < endpos
                        /\ ~State_lt(S[heap[childpos + 1]], S[heap[rightpos + 1]])
                     THEN rightpos ELSE childpos
            IN heapq_siftup_loop(S, [heap EXCEPT ![pos + 1] = heap[c + 1]],
                                 startpos, c, newitem)
       ELSE heapq_siftdown(S, [heap EXCEPT ![pos + 1] = newitem], startpos, pos, newitem)

heappush(S, heap, item) ==
    heapq_siftdown(S, Append(heap, item), 0, Len(heap), item)

\* list.pop() in place of heappop: the last item of the list.
heappop_last(S, heap) ==
    [item |-> heap[Len(heap)], heap |-> SubSeq(heap, 1, Len(heap) - 1)]

\* heappop: the item returned and the heap left.
heappop(S, heap) ==
    LET lastelt == heap[Len(heap)]
        rest == SubSeq(heap, 1, Len(heap) - 1)
    IN IF rest # <<>>
       THEN [item |-> rest[1],
             heap |-> heapq_siftup_loop(S, [rest EXCEPT ![1] = lastelt], 0, 0, lastelt)]
       ELSE [item |-> lastelt, heap |-> rest]


\* ------------------------------------------------------------------------
\* Puzzle files (the input of read_from_file).  Each is a valid puzzle: one
\* goal piece, no overlap, two empty cells.
\* ------------------------------------------------------------------------
\* five 1x2 pieces; the goal piece is three slides from the target
Puzzle_three_moves ==
    << <<"2", "2", "<", ">">>,
       <<"<", ">", "<", ">">>,
       <<"^", "1", "1", "^">>,
       <<"v", "1", "1", "v">>,
       <<"2", "2", ".", ".">> >>

\* five 1x2 pieces; two slides from the target
Puzzle_two_moves ==
    << <<"2", "^", "<", ">">>,
       <<"2", "v", "2", "2">>,
       <<"<", ">", "<", ">">>,
       <<".", "^", "1", "1">>,
       <<".", "v", "1", "1">> >>

\* five 1x2 pieces; the goal piece starts on the target
Puzzle_solved ==
    << <<"^", "^", "^", "2">>,
       <<"v", "v", "v", ".">>,
       <<"<", ">", "<", ">">>,
       <<".", "1", "1", "2">>,
       <<"2", "1", "1", "2">> >>

\* five 1x2 pieces; two boards reachable, none solved
Puzzle_stuck ==
    << <<"1", "1", "<", ">">>,
       <<"1", "1", ".", "^">>,
       <<"2", "<", ">", "v">>,
       <<"2", "^", "2", "^">>,
       <<"2", "v", ".", "v">> >>

\* six 1x2 pieces; no solved board is reachable by legal slides
Puzzle_six_overlap ==
    << <<"^", "2", "<", ">">>,
       <<"v", "<", ">", ".">>,
       <<"2", "1", "1", "^">>,
       <<"^", "1", "1", "v">>,
       <<"v", ".", "<", ">">> >>

\* six 1x2 pieces; one legal slide from the target
Puzzle_six_one_move ==
    << <<"2", "^", "^", "^">>,
       <<"2", "v", "v", "v">>,
       <<"<", ">", "<", ">">>,
       <<"^", ".", "1", "1">>,
       <<"v", ".", "1", "1">> >>

\* seven 1x2 pieces; no legal slide at all
Puzzle_seven_boxed ==
    << <<"1", "1", "<", ">">>,
       <<"1", "1", ".", "^">>,
       <<"^", "<", ">", "v">>,
       <<"v", ".", "^", "^">>,
       <<"<", ">", "v", "v">> >>

\* six 1x2 pieces; no legal slide at all
Puzzle_six_boxed ==
    << <<"<", ">", "^", "2">>,
       <<"^", ".", "v", "2">>,
       <<"v", "<", ">", "^">>,
       <<"1", "1", ".", "v">>,
       <<"1", "1", "<", ">">> >>

PuzzleFiles ==
    {Puzzle_three_moves,
     Puzzle_two_moves,
     Puzzle_solved,
     Puzzle_stuck,
     Puzzle_six_overlap,
     Puzzle_six_one_move,
     Puzzle_seven_boxed,
     Puzzle_six_boxed}

\* A piece list that is not a puzzle: the goal piece alone, at (1, 0), on a
\* grid with nothing else on it.
File_lone_goal ==
    << <<".", "1", "1", ".">>,
       <<".", "1", "1", ".">>,
       <<".", ".", ".", ".">>,
       <<".", ".", ".", ".">>,
       <<".", ".", ".", ".">> >>

ScenarioFiles == {File_lone_goal}

HashSeeds == {0, 1}

fn_vars == <<fn_pieces, fn_call, fn_board, fn_actions, fn_h, fn_back, fn_valid>>

drv_vars == <<hashseed, algo, initial, states, current_state, visited, frontier,
              actions, pc, ret, out, path, exc, popped>>

det_vars == <<run_no, first_run>>

vars == <<drv_vars, fn_vars, det_vars>>

\* The value of fn_back before get_actions was applied a second time.
NoBack == [board |-> Board(<<>>), actions |-> <<>>, exc |-> None]

\* The value of fn_valid before is_valid was applied.
NoValid == [pieces |-> <<>>, result |-> FALSE]

\* The value of ret while dfs() / astar() has not returned.
NotReturned == "(running)"

\* ------------------------------------------------------------------------
\* __main__: board = read_from_file(...); DFS(board) or AStar(board)
\* ------------------------------------------------------------------------
\* DFS.__init__ / AStar.__init__: the root State of the run.
RootState(drv, pieces) ==
    LET initial_board == Board(pieces) IN
    IF drv = "dfs" THEN State(initial_board, 1, 0, NoneRef)
    ELSE State(initial_board, AStar_heuristic(initial_board), 0, NoneRef)

\* read_from_file ends with board = Board(pieces): when the constructor
\* raises, the program ends there and no driver object is built.
Init ==
    /\ hashseed \in HashSeeds
    /\ algo \in {"dfs", "astar"}
    /\ initial \in {read_from_file(file) : file \in PuzzleFiles \cup ScenarioFiles}
    /\ IF Board(initial).exc = None
       THEN /\ states = <<RootState(algo, initial)>>
            /\ current_state = 1
            /\ visited = {states[1].id}
            /\ frontier = <<1>>
            /\ pc = "loop"
            /\ exc = None
       ELSE /\ states = <<>>
            /\ current_state = NoneRef
            /\ visited = {}
            /\ frontier = <<>>
            /\ pc = "raised"
            /\ exc = Board(initial).exc
    /\ actions = <<>>
    /\ ret = NotReturned
    /\ out = <<>>
    /\ path = <<>>
    /\ popped = <<>>
    /\ fn_pieces = <<>>
    /\ fn_call = "none"
    /\ fn_board = Board(<<>>)
    /\ fn_actions = <<>>
    /\ fn_h = <<0, 0>>
    /\ fn_back = NoBack
    /\ fn_valid = NoValid
    /\ run_no = 1
    /\ first_run = [hashseed |-> 0, summary |-> <<>>]

\* ------------------------------------------------------------------------
\* print_solution (DFS.print_solution and AStar.print_solution are the same)
\* ------------------------------------------------------------------------
\* "while self.current_state: path.append(...); ... = parent", then reverse.
RECURSIVE parent_chain(_, _)
parent_chain(S, ref) ==
    IF ref = NoneRef THEN <<>>
    ELSE Append(parent_chain(S, S[ref].parent), ref)

\* The lines printed for the path: "Step: ", count, and the board displayed.
print_steps(S, p) == [k \in 1..Len(p) |-> <<"Step: ", k, S[p[k]].board.grid>>]

\* ------------------------------------------------------------------------
\* DFS.dfs
\* ------------------------------------------------------------------------
\* The goal test of dfs(): self.current_state.board.heuristic() == 0
DFS_goal_test(state) == Board_heuristic(state.board) = 0

\* while self.frontier: self.current_state = self.frontier.pop()
DFS_pop ==
    /\ algo = "dfs" /\ pc = "loop" /\ frontier # <<>>
    /\ current_state' = frontier[Len(frontier)]
    /\ frontier' = SubSeq(frontier, 1, Len(frontier) - 1)
    /\ popped' = Append(popped, frontier[Len(frontier)])
    /\ pc' = "popped"
    /\ UNCHANGED <<fn_vars, det_vars, hashseed, algo, initial, states, visited, actions, ret, out, path, exc>>

\* if self.current_state.board.heuristic() == 0: print("Depth: ", ...)
DFS_solved ==
    /\ algo = "dfs" /\ pc = "popped"
    /\ DFS_goal_test(states[current_state])
    /\ out' = Append(out, <<"Depth: ", states[current_state].depth>>)
    /\ pc' = "print"
    /\ UNCHANGED <<fn_vars, det_vars, hashseed, algo, initial, states, current_state, visited, frontier,
                   actions, ret, path, exc, popped>>

\* self.print_solution(); return
DFS_print_solution ==
    /\ algo = "dfs" /\ pc = "print"
    /\ path' = parent_chain(states, current_state)
    /\ current_state' = NoneRef
    /\ out' = out \o print_steps(states, path')
    /\ ret' = None
    /\ pc' = "done"
    /\ UNCHANGED <<fn_vars, det_vars, hashseed, algo, initial, states, visited, frontier, actions, exc, popped>>

\* The expansion with get_actions adding the new ids to a copy of the set
\* (visited = set(self.visited)): self.visited is left as it was.
DFS_expand_unmarked ==
    /\ algo = "dfs" /\ pc = "popped"
    /\ ~DFS_goal_test(states[current_state])
    /\ LET r == DFS_get_actions(states[current_state], current_state, visited) IN
       IF r.exc # None
       THEN /\ exc' = r.exc
            /\ pc' = "raised"
            /\ UNCHANGED <<states, actions>>
       ELSE /\ states' = states \o r.actions
            /\ actions' = [k \in 1..Len(r.actions) |-> Len(states) + k]
            /\ pc' = IF r.actions = <<>> THEN "loop" ELSE "push"
            /\ exc' = exc
    /\ UNCHANGED <<fn_vars, det_vars, hashseed, algo, initial, current_state, visited, frontier, ret,
                   out, path, popped>>

\* actions = self.get_actions()
DFS_expand ==
    /\ algo = "dfs" /\ pc = "popped"
    /\ ~DFS_goal_test(states[current_state])
    /\ LET r == DFS_get_actions(states[current_state], current_state, visited) IN
       /\ visited' = r.visited
       /\ IF r.exc # None
          THEN /\ exc' = r.exc
               /\ pc' = "raised"
               /\ states' = [states EXCEPT ![current_state].board = get_actions_leaves(@, 0)]
               /\ UNCHANGED actions
          ELSE /\ states' = [states EXCEPT ![current_state].board = get_actions_leaves(@, 0)]
                                \o r.actions
               /\ actions' = [k \in 1..Len(r.actions) |-> Len(states) + k]
               /\ pc' = IF r.actions = <<>> THEN "loop" ELSE "push"
               /\ exc' = exc
    /\ UNCHANGED <<fn_vars, det_vars, hashseed, algo, initial, current_state, frontier, ret, out, path, popped>>

\* for action in actions: self.frontier.append(action)
DFS_push ==
    /\ algo = "dfs" /\ pc = "push"
    /\ frontier' = Append(frontier, Head(actions))
    /\ actions' = Tail(actions)
    /\ pc' = IF Tail(actions) = <<>> THEN "loop" ELSE "push"
    /\ UNCHANGED <<fn_vars, det_vars, hashseed, algo, initial, states, current_state, visited, ret, out,
                   path, exc, popped>>

\* the while loop ends: print("No solution found."); return None
DFS_no_solution ==
    /\ algo = "dfs" /\ pc = "loop" /\ frontier = <<>>
    /\ out' = Append(out, <<"No solution found.">>)
    /\ ret' = None
    /\ pc' = "done"
    /\ UNCHANGED <<fn_vars, det_vars, hashseed, algo, initial, states, current_state, visited, frontier,
                   actions, path, exc, popped>>

\* ------------------------------------------------------------------------
\* AStar.astar
\* ------------------------------------------------------------------------
\* A goal test that forgets the distance term of the heuristic.
AStar_goal_test_conflict_only(state) == AStar_linear_conflict(state.board) = 0

\* The goal test of astar(): self.heuristic(self.current_state.board) == 0
AStar_goal_test(state) == AStar_heuristic(state.board) = 0

\* while self.frontier: self.current_state = heappop(self.frontier)
AStar_pop ==
    /\ algo = "astar" /\ pc = "loop" /\ frontier # <<>>
    /\ LET r == heappop(states, frontier) IN
       /\ current_state' = r.item
       /\ frontier' = r.heap
       /\ popped' = Append(popped, r.item)
    /\ pc' = "popped"
    /\ UNCHANGED <<fn_vars, det_vars, hashseed, algo, initial, states, visited, actions, ret, out, path, exc>>

\* if self.heuristic(self.current_state.board) == 0: print("Depth: ", ...)
AStar_solved ==
    /\ algo = "astar" /\ pc = "popped"
    /\ AStar_goal_test(states[current_state])
    /\ out' = Append(out, <<"Depth: ", states[current_state].depth>>)
    /\ pc' = "print"
    /\ UNCHANGED <<fn_vars, det_vars, hashseed, algo, initial, states, current_state, visited, frontier,
                   actions, ret, path, exc, popped>>

\* self.print_solution(); return
AStar_print_solution ==
    /\ algo = "astar" /\ pc = "print"
    /\ path' = parent_chain(states, current_state)
    /\ current_state' = NoneRef
    /\ out' = out \o print_steps(states, path')
    /\ ret' = None
    /\ pc' = "done"
    /\ UNCHANGED <<fn_vars, det_vars, hashseed, algo, initial, states, visited, frontier, actions, exc, popped>>

\* self.visited.add(self.current_state.id); actions = self.get_actions()
AStar_expand ==
    /\ algo = "astar" /\ pc = "popped"
    /\ ~AStar_goal_test(states[current_state])
    /\ LET vis == visited \cup {states[current_state].id}
           r == AStar_get_actions(states[current_state], current_state, vis)
       IN /\ visited' = r.visited
          /\ IF r.exc # None
             THEN /\ exc' = r.exc
                  /\ pc' = "raised"
                  /\ states' = [states EXCEPT ![current_state].board = get_actions_leaves(@, 0)]
                  /\ UNCHANGED actions
             ELSE /\ states' = [states EXCEPT ![current_state].board = get_actions_leaves(@, 0)]
                                   \o r.actions
                  /\ actions' = [k \in 1..Len(r.actions) |-> Len(states) + k]
                  /\ pc' = IF r.actions = <<>> THEN "loop" ELSE "push"
                  /\ exc' = exc
    /\ UNCHANGED <<fn_vars, det_vars, hashseed, algo, initial, current_state, frontier, ret, out, path, popped>>

\* The push loop without its test "action.id not in self.visited".
AStar_push_unchecked ==
    /\ algo = "astar" /\ pc = "push"
    /\ frontier' = heappush(states, frontier, Head(actions))
    /\ visited' = visited \cup {states[Head(actions)].id}
    /\ actions' = Tail(actions)
    /\ pc' = IF Tail(actions) = <<>> THEN "loop" ELSE "push"
    /\ UNCHANGED <<fn_vars, det_vars, hashseed, algo, initial, states, current_state, ret, out, path,
                   exc, popped>>

\* for action in actions: if action.id not in self.visited: heappush; add
AStar_push ==
    /\ algo = "astar" /\ pc = "push"
    /\ LET action == Head(actions) IN
       IF states[action].id \notin visited
       THEN /\ frontier' = heappush(states, frontier, action)
            /\ visited' = visited \cup {states[action].id}
       ELSE UNCHANGED <<frontier, visited>>
    /\ actions' = Tail(actions)
    /\ pc' = IF Tail(actions) = <<>> THEN "loop" ELSE "push"
    /\ UNCHANGED <<fn_vars, det_vars, hashseed, algo, initial, states, current_state, ret, out, path,
                   exc, popped>>

\* the while loop ends: return None
AStar_no_solution ==
    /\ algo = "astar" /\ pc = "loop" /\ frontier = <<>>
    /\ ret' = None
    /\ pc' = "done"
    /\ UNCHANGED <<fn_vars, det_vars, hashseed, algo, initial, states, current_state, visited, frontier,
                   actions, out, path, exc, popped>>

Next ==
    \/ DFS_pop
    \/ DFS_solved
    \/ DFS_print_solution
    \/ DFS_expand
    \/ DFS_push
    \/ DFS_no_solution
    \/ AStar_pop
    \/ AStar_solved
    \/ AStar_print_solution
    \/ AStar_expand
    \/ AStar_push
    \/ AStar_no_solution

Spec == Init /\ [][Next]_vars


\* ------------------------------------------------------------------------
\* Files read_from_file accepts that are not valid puzzles
\* ------------------------------------------------------------------------
\* a 1x1 piece on the right half of a 1x2 piece: two footprints overlap
File_overlap ==
    << <<"2", "2", "<", "2">>,
       <<"<", ">", "<", ">">>,
       <<"^", "1", "1", "^">>,
       <<"v", "1", "1", "v">>,
       <<"2", "2", ".", ".">> >>

\* three empty cells, all in the last row
File_three_empty_row ==
    << <<"2", "2", "<", ">">>,
       <<"<", ">", "<", ">">>,
       <<"^", "1", "1", "^">>,
       <<"v", "1", "1", "v">>,
       <<"2", ".", ".", ".">> >>

\* three empty cells, the third in a later row than the second
File_three_empty ==
    << <<"2", ".", "<", ">">>,
       <<"<", ">", ".", "2">>,
       <<"^", "1", "1", "^">>,
       <<"v", "1", "1", "v">>,
       <<"2", ".", "<", ">">> >>

\* one empty cell
File_one_empty ==
    << <<"2", "2", "<", ">">>,
       <<"<", ">", "<", ">">>,
       <<"^", "1", "1", "^">>,
       <<"v", "1", "1", "v">>,
       <<"2", "2", "2", ".">> >>

InvalidFiles ==
    {File_overlap,
     File_three_empty_row,
     File_three_empty,
     File_one_empty}

\* ------------------------------------------------------------------------
\* The puzzle's rules, stated on piece lists: what the claims measure the
\* code against
\* ------------------------------------------------------------------------
Cells == (0..(width - 1)) \X (0..(height - 1))

Covered(pieces) == UNION {Footprint(pieces[k]) : k \in 1..Len(pieces)}

AllInBounds(pieces) == \A c \in Covered(pieces) : InBounds(c)

NoOverlap(pieces) ==
    \A i \in 1..Len(pieces) : \A j \in 1..Len(pieces) :
        i < j => Footprint(pieces[i]) \cap Footprint(pieces[j]) = {}

EmptyCells(pieces) == Cells \ Covered(pieces)

OneGoalPiece(pieces) == Cardinality({k \in 1..Len(pieces) : pieces[k].is_goal}) = 1

ValidPieces(pieces) ==
    /\ OneGoalPiece(pieces)
    /\ AllInBounds(pieces)
    /\ NoOverlap(pieces)
    /\ Cardinality(EmptyCells(pieces)) = 2

GoalAtTarget(pieces) ==
    \E k \in 1..Len(pieces) :
        pieces[k].is_goal /\ pieces[k].coord_x = goal_x /\ pieces[k].coord_y = goal_y

Slid(p, d) == [p EXCEPT !.coord_x = @ + d[1], !.coord_y = @ + d[2]]

UnitSteps == {<<0, -1>>, <<0, 1>>, <<-1, 0>>, <<1, 0>>}

\* Piece k may slide by d: its new footprint is in bounds and meets no other
\* piece.
LegalSlide(pieces, k, d) ==
    /\ \A c \in Footprint(Slid(pieces[k], d)) : InBounds(c)
    /\ \A j \in 1..Len(pieces) :
           j # k => Footprint(Slid(pieces[k], d)) \cap Footprint(pieces[j]) = {}

\* Exhaustive enumeration: every piece, every direction.
LegalSlides(pieces) ==
    {[pieces EXCEPT ![k] = Slid(pieces[k], d)] :
        <<k, d>> \in {kd \in (1..Len(pieces)) \X UnitSteps : LegalSlide(pieces, kd[1], kd[2])}}

\* The piece lists within n legal slides of those in S.
RECURSIVE SlideClosure(_, _)
SlideClosure(S, n) ==
    IF n = 0 THEN S
    ELSE SlideClosure(S \cup UNION {LegalSlides(pieces) : pieces \in S}, n - 1)

\* ------------------------------------------------------------------------
\* The functions applied on their own to a piece list
\* ------------------------------------------------------------------------
MaxSlides == 1

\* The inputs: what read_from_file returns for the files, and the valid
\* puzzles within MaxSlides legal slides of a puzzle file.
InputPieces ==
    {read_from_file(file) : file \in InvalidFiles}
    \cup SlideClosure({read_from_file(file) : file \in PuzzleFiles}, MaxSlides)

InitFn ==
    /\ fn_pieces \in InputPieces
    /\ fn_call = "none"
    /\ fn_board = Board(<<>>)
    /\ fn_actions = <<>>
    /\ fn_h = <<0, 0>>
    /\ fn_back = NoBack
    /\ fn_valid = NoValid
    /\ hashseed = 0
    /\ algo \in {"dfs", "astar"}
    /\ initial = <<>>
    /\ states = <<>>
    /\ current_state = NoneRef
    /\ visited = {}
    /\ frontier = <<>>
    /\ actions = <<>>
    /\ pc = "idle"
    /\ ret = NotReturned
    /\ out = <<>>
    /\ path = <<>>
    /\ exc = None
    /\ popped = <<>>
    /\ run_no = 1
    /\ first_run = [hashseed |-> 0, summary |-> <<>>]

\* board = Board(pieces)
Fn_Board ==
    /\ pc = "idle" /\ fn_call = "none"
    /\ fn_board' = Board(fn_pieces)
    /\ fn_call' = "Board"
    /\ UNCHANGED <<drv_vars, det_vars, fn_pieces, fn_actions, fn_h, fn_back, fn_valid>>

\* Whether get_actions can iterate the Board's empty list: the constructor
\* returned and filled both slots.
HasTwoEmpty(board) == board.exc = None /\ NoneCell \notin Range(board.empty)

\* DFS(board).get_actions() with self.visited emptied first
Fn_DFS_get_actions ==
    /\ pc = "idle" /\ algo = "dfs" /\ fn_call = "Board" /\ HasTwoEmpty(fn_board)
    /\ LET r == DFS_get_actions(State(fn_board, 1, 0, NoneRef), 1, {}) IN
       /\ fn_actions' = r.actions
       /\ fn_call' = IF r.exc = None THEN "get_actions" ELSE r.exc
    /\ UNCHANGED <<drv_vars, det_vars, fn_pieces, fn_board, fn_h, fn_back, fn_valid>>

\* AStar(board).get_actions() with self.visited emptied first
Fn_AStar_get_actions ==
    /\ pc = "idle" /\ algo = "astar" /\ fn_call = "Board" /\ HasTwoEmpty(fn_board)
    /\ LET r == AStar_get_actions(State(fn_board, AStar_heuristic(fn_board), 0, NoneRef), 1, {}) IN
       /\ fn_actions' = r.actions
       /\ fn_call' = IF r.exc = None THEN "get_actions" ELSE r.exc
    /\ UNCHANGED <<drv_vars, det_vars, fn_pieces, fn_board, fn_h, fn_back, fn_valid>>

\* board.heuristic() and AStar.heuristic(board), the two goal tests
Fn_heuristic ==
    /\ pc = "idle" /\ fn_call = "Board" /\ fn_board.exc = None
    /\ fn_h' = <<Board_heuristic(fn_board), AStar_heuristic(fn_board)>>
    /\ fn_call' = "heuristic"
    /\ UNCHANGED <<drv_vars, det_vars, fn_pieces, fn_board, fn_actions, fn_back, fn_valid>>

\* The root State DFS.__init__ / AStar.__init__ wraps around a Board.
Fn_root(drv, board) ==
    IF drv = "dfs" THEN State(board, 1, 0, NoneRef)
    ELSE State(board, AStar_heuristic(board), 0, NoneRef)

\* get_actions() once more, with self.visited emptied, on a Board one slide
\* away: a Board of a State the first call returned, or the Board built
\* from the piece list with one piece slid.
Fn_reverse ==
    /\ pc = "idle" /\ fn_call = "get_actions"
    /\ \E b \in {fn_actions[k].board : k \in 1..Len(fn_actions)}
                 \cup {Board(q) : q \in LegalSlides(fn_pieces)} :
          /\ HasTwoEmpty(b)
          /\ LET cs == Fn_root(algo, b)
                 r == IF algo = "dfs" THEN DFS_get_actions(cs, 1, {})
                      ELSE AStar_get_actions(cs, 1, {})
             IN fn_back' = [board |-> b, actions |-> r.actions, exc |-> r.exc]
    /\ fn_call' = "reverse"
    /\ UNCHANGED <<drv_vars, det_vars, fn_pieces, fn_board, fn_actions, fn_h, fn_valid>>

\* The piece lists a tentative move can hand to is_valid: one piece of the
\* list displaced by one cell, its footprint still in the grid, whatever it
\* lands on.
TentativeMoves(pieces) ==
    {[pieces EXCEPT ![k] = Slid(pieces[k], d)] :
        <<k, d>> \in {kd \in (1..Len(pieces)) \X UnitSteps :
                        \A c \in Footprint(Slid(pieces[kd[1]], kd[2])) : InBounds(c)}}

\* is_valid(pieces) on the piece list read, or on a tentative move from it
Fn_is_valid ==
    /\ pc = "idle" /\ fn_call = "none"
    /\ \E pieces \in {fn_pieces} \cup TentativeMoves(fn_pieces) :
          fn_valid' = [pieces |-> pieces, result |-> is_valid(pieces)]
    /\ fn_call' = "is_valid"
    /\ UNCHANGED <<drv_vars, det_vars, fn_pieces, fn_board, fn_actions, fn_h, fn_back>>

NextFn ==
    \/ Fn_Board
    \/ Fn_is_valid
    \/ Fn_DFS_get_actions
    \/ Fn_AStar_get_actions
    \/ Fn_heuristic
    \/ Fn_reverse

SpecFn == InitFn /\ [][NextFn]_vars


\* ------------------------------------------------------------------------
\* The program run twice on the same puzzle file: AStar(board).astar(), and
\* again in a new process, whose hash salt may differ
\* ------------------------------------------------------------------------
\* The boards popped so far, in order.
PoppedGrids == [k \in 1..Len(popped) |-> states[popped[k]].board.grid]

\* What a finished run shows: how it ended, what it returned and printed,
\* and the boards it popped.
RunSummary ==
    [pc |-> pc, exc |-> exc, ret |-> ret, out |-> out,
     path |-> [k \in 1..Len(path) |-> states[path[k]].board.grid],
     popped |-> PoppedGrids]

InitDet ==
    /\ Init
    /\ algo = "astar"

AStar_rerun ==
    /\ algo = "astar" /\ pc \in {"done", "raised"} /\ run_no = 1
    /\ first_run' = [hashseed |-> hashseed, summary |-> RunSummary]
    /\ run_no' = 2
    /\ hashseed' \in HashSeeds
    /\ IF Board(initial).exc = None
       THEN /\ states' = <<[RootState("astar", initial) EXCEPT
                               !.id = <<hashseed', RootState("astar", initial).board.grid>>]>>
            /\ current_state' = 1
            /\ visited' = {states'[1].id}
            /\ frontier' = <<1>>
            /\ pc' = "loop"
            /\ exc' = None
       ELSE /\ states' = <<>>
            /\ current_state' = NoneRef
            /\ visited' = {}
            /\ frontier' = <<>>
            /\ pc' = "raised"
            /\ exc' = Board(initial).exc
    /\ actions' = <<>>
    /\ ret' = NotReturned
    /\ out' = <<>>
    /\ path' = <<>>
    /\ popped' = <<>>
    /\ UNCHANGED <<fn_vars, algo, initial>>

NextDet ==
    \/ AStar_pop
    \/ AStar_solved
    \/ AStar_print_solution
    \/ AStar_expand
    \/ AStar_push
    \/ AStar_no_solution
    \/ AStar_rerun

SpecDet == InitDet /\ [][NextDet]_vars

\* ------------------------------------------------------------------------
\* Properties
\* ------------------------------------------------------------------------
\* The run ended with "Depth: ..." printed: the Solved outcome.
SolvedRun == pc = "done" /\ out # <<>> /\ out[1][1] = "Depth: "

\* The run ended at the end of the while loop: the NoSolution outcome.
NoSolutionRun == pc = "done" /\ ~SolvedRun

LastPopped == popped[Len(popped)]

PoppedGoal(k) == GoalAtTarget(states[popped[k]].board.pieces)

\* C1: constructing a Board from a piece list whose footprints overlap, or
\* whose number of uncovered cells is not 2, fails with InvalidBoardError.
C1_InvalidBoardError ==
    (fn_call = "Board"
        /\ (~NoOverlap(fn_pieces) \/ Cardinality(EmptyCells(fn_pieces)) # 2))
    => fn_board.exc = "InvalidBoardError"

\* C2: from a valid initial board, the Board of every State a driver
\* generates has its footprints in the grid, no two of them intersecting, and
\* occupied cells + 2 = 20.
C2_GeneratedBoardsValid ==
    ValidPieces(initial) =>
        \A k \in 1..Len(states) :
            /\ AllInBounds(states[k].board.pieces)
            /\ NoOverlap(states[k].board.pieces)
            /\ Cardinality(Covered(states[k].board.pieces)) + 2 = width * height

\* C3: for a valid board and an empty visited set, the boards get_actions
\* returns are exactly the boards one legal slide away.
C3_GeneratorComplete ==
    (fn_call = "get_actions" /\ ValidPieces(fn_pieces)) =>
        {fn_actions[k].board.grid : k \in 1..Len(fn_actions)}
            = {Board(pieces).grid : pieces \in LegalSlides(fn_pieces)}

\* b is a with exactly one piece replaced, the piece keeping its category
\* and displaced by one cell along one axis into cells that were empty in a.
SoundSuccessor(a, b) ==
    /\ Len(a) = Len(b)
    /\ \E k \in 1..Len(a) :
        /\ \A j \in 1..Len(a) : j # k => b[j] = a[j]
        /\ b[k].is_goal = a[k].is_goal
        /\ b[k].is_single = a[k].is_single
        /\ b[k].orientation = a[k].orientation
        /\ b[k].shape = a[k].shape
        /\ Abs(b[k].coord_x - a[k].coord_x) + Abs(b[k].coord_y - a[k].coord_y) = 1
        /\ \A c \in Footprint(b[k]) : InBounds(c)
        /\ (Footprint(b[k]) \ Footprint(a[k])) \subseteq EmptyCells(a)

\* C4: every successor State differs from its parent in exactly one piece,
\* which keeps its category, moves by one cell along one axis, stays in
\* bounds and enters only cells that were empty in the parent.
C4_GeneratorSound ==
    \A k \in 1..Len(states) :
        states[k].parent # NoneRef =>
            SoundSuccessor(states[states[k].parent].board.pieces, states[k].board.pieces)

\* C5: for every board with its goal piece, Board.heuristic() == 0 and
\* AStar.heuristic(board) == 0 each hold exactly when the goal piece's
\* top-left corner is at the target (1, 3).
C5_GoalTest ==
    (fn_call = "heuristic" /\ OneGoalPiece(fn_pieces)) =>
        /\ (fn_h[1] = 0) <=> GoalAtTarget(fn_pieces)
        /\ (fn_h[2] = 0) <=> GoalAtTarget(fn_pieces)

C5_Witness ==
    fn_call = "heuristic" /\ GoalAtTarget(fn_pieces) /\ fn_h = <<0, 0>>

\* C6: the first popped State with the goal piece at the target ends the run
\* as Solved with that State: nothing is popped after it, the move generator
\* is not called on it, and the run is Solved only at such a State.
C6_FirstGoalPopEnds ==
    /\ \A k \in 1..(Len(popped) - 1) : ~PoppedGoal(k)
    /\ (popped # <<>> /\ PoppedGoal(Len(popped))) =>
        /\ pc \in {"popped", "print", "done"}
        /\ \A k \in 1..Len(states) : states[k].parent # LastPopped
        /\ pc = "done" =>
            /\ out[1] = <<"Depth: ", states[LastPopped].depth>>
            /\ path # <<>> /\ path[Len(path)] = LastPopped
    /\ (pc = "print" \/ SolvedRun) => (popped # <<>> /\ PoppedGoal(Len(popped)))

C6_Witness ==
    /\ SolvedRun /\ Len(popped) > 1 /\ PoppedGoal(Len(popped))
    /\ frontier # <<>>

\* The piece lists reachable from S by legal slides.
RECURSIVE LegalReach(_)
LegalReach(S) ==
    LET T == S \cup UNION {LegalSlides(pieces) : pieces \in S} IN
    IF T = S THEN S ELSE LegalReach(T)

GoalReachable(pieces) == \E q \in LegalReach({pieces}) : GoalAtTarget(q)

\* C7: a driver ends Solved iff a board with the goal piece at the target is
\* reachable from the initial board by legal slides, and ends NoSolution,
\* its frontier exhausted, otherwise.
C7_SolvedIffReachable ==
    (pc \in {"done", "raised"} /\ ValidPieces(initial)) =>
        /\ SolvedRun <=> GoalReachable(initial)
        /\ ~GoalReachable(initial) => (NoSolutionRun /\ frontier = <<>>)

\* C8: the value a driver returns tells the two outcomes apart: Solved on a
\* solved run, NoSolution on a run that exhausted its frontier.
C8_TaggedResult ==
    pc = "done" => ret = (IF SolvedRun THEN "Solved" ELSE "NoSolution")

\* C9: on a Solved run the reconstructed path starts at the root State, ends
\* at the popped goal State, links each State to its parent, steps by one
\* legal slide, and has depth + 1 States.
C9_PathReconstruction ==
    SolvedRun =>
        /\ path # <<>>
        /\ path[1] = 1 /\ states[1].parent = NoneRef
        /\ states[1].board.pieces = initial
        /\ path[Len(path)] = LastPopped
        /\ \A k \in 1..(Len(path) - 1) :
            /\ states[path[k + 1]].parent = path[k]
            /\ states[path[k + 1]].board.pieces \in LegalSlides(states[path[k]].board.pieces)
        /\ Len(path) = out[1][2] + 1


IsPrefix(a, b) == Len(a) <= Len(b) /\ a = SubSeq(b, 1, Len(a))

C11_Reversibility ==
    (fn_call = "reverse" /\ ValidPieces(fn_pieces)
        /\ fn_back.board.pieces \in LegalSlides(fn_pieces)) =>
        \E k \in 1..Len(fn_back.actions) :
            /\ fn_back.actions[k].board.pieces = fn_pieces
            /\ fn_back.actions[k].board.grid = fn_board.grid
            /\ fn_back.actions[k].id = Board_hash(fn_board)

\* The goal piece of a piece list that has one.
GoalPieceOf(pieces) == pieces[CHOOSE k \in 1..Len(pieces) : pieces[k].is_goal]

\* The indices strictly between a band of two starting at a and a band of
\* two starting at b.
StrictlyBetween(a, b) ==
    {r \in 0..(height - 1) : (a + 1 < r /\ r < b) \/ (b + 1 < r /\ r < a)}

\* The linear conflict penalty as the design states it: per axis the goal
\* piece still has to travel, the occupied cells strictly between its
\* footprint and the target footprint, in the band the piece travels in.
LinearConflictPenalty(pieces) ==
    LET g == GoalPieceOf(pieces)
        along_y == IF g.coord_y # goal_y
                   THEN {c \in Cells : /\ c[1] \in g.coord_x..(g.coord_x + 1)
                                       /\ c[2] \in StrictlyBetween(g.coord_y, goal_y)}
                   ELSE {}
        along_x == IF g.coord_x # goal_x
                   THEN {c \in Cells : /\ c[2] \in g.coord_y..(g.coord_y + 1)
                                       /\ c[1] \in StrictlyBetween(g.coord_x, goal_x)}
                   ELSE {}
    IN Cardinality(along_y \cap Covered(pieces)) + Cardinality(along_x \cap Covered(pieces))

\* C12: for every valid board, AStar.heuristic(board) is the Manhattan
\* distance of the goal piece's corner to (1, 3) plus twice the number of
\* occupied cells strictly between its footprint and the target footprint,
\* summed over the axes it still has to travel.
C12_HeuristicFormula ==
    (fn_call = "heuristic" /\ ValidPieces(fn_pieces)) =>
        fn_h[2] = Abs(GoalPieceOf(fn_pieces).coord_x - goal_x)
                    + Abs(GoalPieceOf(fn_pieces).coord_y - goal_y)
                    + 2 * LinearConflictPenalty(fn_pieces)

\* C13: on the piece list of a single goal piece at (1, 0) and nothing else,
\* A* ends Solved with depth 3 and the last board of its path has the goal
\* piece's top-left corner at (1, 3).
C13_LoneGoalScenario ==
    (algo = "astar" /\ initial = read_from_file(File_lone_goal)
        /\ pc \in {"done", "raised"}) =>
        /\ SolvedRun
        /\ out[1] = <<"Depth: ", 3>>
        /\ path # <<>>
        /\ GoalAtTarget(states[path[Len(path)]].board.pieces)

\* The States pushed onto the frontier so far: those popped since, in the
\* order of their pops, and those still in it.
Pushed == popped \o frontier

\* C14: within a run of DFS or of A*, each id is pushed onto the frontier at
\* most once, and so popped and expanded at most once.
C14_NoReExpansion ==
    \A i \in 1..Len(Pushed) : \A j \in 1..Len(Pushed) :
        i # j => states[Pushed[i]].id # states[Pushed[j]].id

\* A finished run in which a State was expanded one slide away from a board
\* popped before it: the expansion met that board's id again.
C14_Witness ==
    /\ pc = "done" /\ Len(popped) > 2
    /\ \E i \in 1..Len(popped) : \E j \in 1..(Len(popped) - 1) :
        /\ i < j
        /\ states[popped[i]].board.pieces \in LegalSlides(states[popped[j]].board.pieces)
        /\ \E k \in 1..Len(states) : states[k].parent = popped[j]

\* C15: the visited set of a run only grows: every id in it before a step of
\* DFS or of A* (pop, successor generation, push) is in it after the step.
C15_VisitedGrows == [][visited \subseteq visited']_vars

\* A finished run whose visited set grew past the root's id over several
\* expansions.
C15_Witness ==
    /\ pc = "done" /\ Len(popped) > 2
    /\ states[1].id \in visited /\ Cardinality(visited) > 3

\* The run takes no further step: dfs() / astar() returned, or an exception
\* left it.  Every other position of the driver has a next step.
RunOver == pc \in {"done", "raised"}

\* C16: for every valid initial board the DFS loop and the A* loop reach a
\* terminal outcome, Solved or NoSolution: stated on the final state, a run
\* that takes no further step has ended Solved or NoSolution.
C16_Termination ==
    (ValidPieces(initial) /\ RunOver) => (SolvedRun \/ NoSolutionRun)

\* C17: at every pop of the A* loop the popped State's f is at most the f of
\* every State left in the frontier; the goal test is applied to popped
\* States only: the run turns to Solved from a popped goal State, and never
\* in a step that creates or pushes States.
C17_PopLowestF ==
    [][algo = "astar" =>
        /\ popped' # popped =>
            /\ current_state' = popped'[Len(popped')]
            /\ \A k \in 1..Len(frontier') :
                   states'[current_state'].f <= states'[frontier'[k]].f
        /\ (pc' = "print" /\ pc # "print") =>
            /\ pc = "popped" /\ current_state = LastPopped
            /\ AStar_heuristic(states[current_state].board) = 0
        /\ (Len(states') > Len(states) \/ Len(frontier') > Len(frontier)) =>
            pc' \in {"loop", "push"}]_vars

\* An A* run about to pop, a State with the goal piece at the target waiting
\* in the frontier among States of other f values.
C17_Witness ==
    /\ algo = "astar" /\ pc = "loop" /\ Len(popped) > 1
    /\ \E k \in 1..Len(frontier) : GoalAtTarget(states[frontier[k]].board.pieces)
    /\ \E i \in 1..Len(frontier) : \E j \in 1..Len(frontier) :
           states[frontier[i]].f < states[frontier[j]].f

\* C18: every State of an A* run has f = depth + AStar.heuristic(board); the
\* root has depth 0 and no parent, every other State has its parent's depth
\* + 1, so depth is the number of parent links to the root.
C18_FIsDepthPlusH ==
    algo = "astar" =>
        \A k \in 1..Len(states) :
            /\ states[k].f = states[k].depth + AStar_heuristic(states[k].board)
            /\ k = 1 => (states[k].depth = 0 /\ states[k].parent = NoneRef)
            /\ k > 1 => /\ states[k].parent \in 1..(k - 1)
                        /\ states[k].depth = states[states[k].parent].depth + 1
            /\ Len(parent_chain(states, k)) = states[k].depth + 1

\* A finished A* run that created a State two links from the root whose
\* board is not solved.
C18_Witness ==
    /\ algo = "astar" /\ pc = "done"
    /\ \E k \in 1..Len(states) :
        /\ states[k].depth >= 2
        /\ AStar_heuristic(states[k].board) > 0
        /\ states[k].f = states[k].depth + AStar_heuristic(states[k].board)

\* The candidates whose id a step tests against visited and finds new: the
\* States get_actions returns in an expansion step, the State at the head of
\* "actions" in a push step of A* when its id is not in visited.
CheckedNew ==
    {states'[k].id : k \in (Len(states) + 1)..Len(states')}
    \cup (IF algo = "astar" /\ pc = "push" /\ states[Head(actions)].id \notin visited
          THEN {states[Head(actions)].id} ELSE {})

\* C19: each driver has one deduplication point: the step that tests a
\* candidate's id against visited is the step that inserts it, and new ids
\* enter visited at one kind of step only (get_actions in DFS, the push in
\* A*).
C19_OneDedupPoint ==
    [][/\ CheckedNew \subseteq visited'
       /\ visited' # visited =>
            /\ pc = (IF algo = "dfs" THEN "popped" ELSE "push")
            /\ (visited' \ visited) \subseteq CheckedNew]_vars

\* The piece lists a and b differ in one piece only.
OnePieceReplaced(a, b) ==
    Len(a) = Len(b) /\ Cardinality({k \in 1..Len(a) : a[k] # b[k]}) = 1

GetActionsStep == pc = "popped" /\ pc' \in {"loop", "push", "raised"}

\* The visited set at the moment get_actions is entered.
VisitedAtCall ==
    IF algo = "astar" THEN visited \cup {states[current_state].id} ELSE visited

C21_GetActionsFrame ==
    [][GetActionsStep =>
          /\ frontier' = frontier
          /\ visited' = VisitedAtCall
          /\ current_state' = current_state
          /\ Len(states') >= Len(states)
          /\ SubSeq(states', 1, Len(states)) = states]_vars

\* ------------------------------------------------------------------------
\* C22: for every State move_piece generated from a valid State, the empty
\* list stored on its Board (the incrementally updated list that overwrites
\* the constructor's) is, as a set, exactly the set of the two cells that
\* are empty in that Board's grid.
\* ------------------------------------------------------------------------
\* The cells that are '.' in the grid the constructor built.
GridEmpty(board) == {c \in Cells : board.grid[c[2]][c[1]] = "."}

EmptyListMatchesGrid(board) ==
    /\ Cardinality(GridEmpty(board)) = 2
    /\ Range(board.empty) = GridEmpty(board)

C22_EmptyListMatchesGrid ==
    \A k \in 1..Len(states) :
        (/\ states[k].parent # NoneRef
         /\ ValidPieces(states[states[k].parent].board.pieces))
        => EmptyListMatchesGrid(states[k].board)

\* ------------------------------------------------------------------------
\* C23: print_solution, run from the goal State, changes no field of the
\* driver (current State, visited set, frontier) and no field of any State;
\* the driver's current State is still the goal State when it returns.
\* ------------------------------------------------------------------------
\* The step of the run that is the call of print_solution.
PrintSolutionStep == pc = "print" /\ pc' = "done"

C23_PrintSolutionPure ==
    [][PrintSolutionStep =>
          /\ current_state' = current_state
          /\ visited' = visited
          /\ frontier' = frontier
          /\ states' = states]_vars

\* ------------------------------------------------------------------------
\* C24: in every reachable state of a DFS run and of an A* run, every State
\* in the frontier has its id in the visited set, and no two States in the
\* frontier have the same id.
\* ------------------------------------------------------------------------
C24_FrontierMarkedDistinct ==
    /\ \A i \in 1..Len(frontier) : states[frontier[i]].id \in visited
    /\ \A i \in 1..Len(frontier) : \A j \in 1..Len(frontier) :
           i # j => states[frontier[i]].id # states[frontier[j]].id

\* A run that has expanded two States and holds at least two States in its
\* frontier, pushed after the root; the visited set also holds ids of
\* States that have left the frontier.
C24_Witness ==
    /\ pc = "loop" /\ Len(popped) >= 2 /\ Len(frontier) >= 2
    /\ \A i \in 1..Len(frontier) : states[frontier[i]].parent # NoneRef
    /\ Cardinality(visited) > Len(frontier)

\* ------------------------------------------------------------------------
\* C25: for every piece list with one goal piece and all footprints in the
\* grid, whatever its numbers of 1x1, horizontal and vertical pieces,
\* is_valid(pieces) returns true if and only if no two footprints share a
\* cell.
\* ------------------------------------------------------------------------
C25_IsValidIffNoOverlap ==
    (/\ fn_call = "is_valid"
     /\ OneGoalPiece(fn_valid.pieces)
     /\ AllInBounds(fn_valid.pieces))
    => (fn_valid.result <=> NoOverlap(fn_valid.pieces))

====
